---- MODULE Spec2Model ----
(***************************************************************************)
(* The notebook execution engine of CloudeasyML's frontend:                *)
(* frontend/src/components/notebook/notebook-interface.tsx                 *)
(* (NotebookInterface: initKernel, executeCell, runAllCells, restartKernel,*)
(* interruptKernel), the toolbar and cell components that gate its         *)
(* handlers, the notebook store (lib/stores/notebook-store) and the kernel *)
(* client (lib/jupyter/kernel-client) it drives.                           *)
(*                                                                         *)
(* One action is one run of a handler up to its next await: JavaScript     *)
(* runs a handler to its await without interleaving, and the continuation  *)
(* of an await runs as one step too.                                       *)
(***************************************************************************)
EXTENDS Integers, Sequences, FiniteSets, TLC

\* ------------------------------------------------------------------ bounds
\* Total number of requests the user makes in one behaviour (run a cell, run
\* all, restart, interrupt, clear all outputs).
MaxOps == 2
\* Total number of output events the kernel emits in one behaviour.
MaxEvents == 2
\* Longest source text a cell holds, in characters.
MaxChars == 2
\* Total number of output events in one behaviour in which the notebook is edited.
MaxEditEvents == 1
\* Largest notebook exported, in cells.
MaxCells == 2

\* ------------------------------------------------------------ the notebook
\* The notebook the store holds when the interface is mounted: the cell types
\* in notebook order (two code cells around one markdown cell).
InitialTypes == <<"code", "markdown", "code">>

OutputTypes == {"stream", "error"}

\* executionCount of a cell that has none (null in the source).
NoCount == 0

\* A source text is a sequence of characters: a letter or the line separator.
Chars == {"x", "\n"}

\* The source every cell of the initial notebook holds.
InitialSource == <<"x">>

VARIABLES
  cells,            \* store: the ordered cells [id, type, source, status, outputs, executionCount]
  kernelStatus,     \* store: the kernel status the toolbar shows
  kernelClient,     \* component state: TRUE once setKernelClient(client) ran
  isInitializing,   \* component state
  initError,        \* component state: TRUE when an init error message is set
  initPc,           \* position of the initKernel effect: "mount", "awaiting", "done"
  mountCells,       \* the cells closed over by the Shift+Enter command at editor mount
  session,          \* kernel client: the session status isReady() reads
  kernelCount,      \* kernel: its execution counter
  execs,            \* every executeCode call so far, in call order
  opsLeft,          \* user requests still allowed by MaxOps
  eventsUsed,       \* output events emitted so far
  batch,            \* the runAllCells loop suspended at its await, if any
  batchLog,         \* history of the latest run-all batch
  restartPending,   \* restartKernel is suspended at await kernelClient.restart()
  interruptPending, \* interruptKernel is suspended at await kernelClient.interrupt()
  toast,            \* the toast.error message the last step raised, "" if none
  mountAdded,       \* for a cell added later: the cells its Shift+Enter command closed over
  exported,         \* the notebook.ipynb documents downloaded so far, latest last (at most one kept)
  superseded        \* initKernel runs of earlier renders still suspended at their await

vars == <<cells, kernelStatus, kernelClient, isInitializing, initError, initPc,
          mountCells, session, kernelCount, execs, opsLeft, eventsUsed, batch,
          batchLog, restartPending, interruptPending, toast, mountAdded,
          exported, superseded>>

\* State that only the editing, the export and the import of the notebook and
\* a connection attempt that overtakes another change.
aux == <<mountAdded, exported, superseded>>

\* ------------------------------------------------------------------ store
\* lib/stores/notebook-store: a pure state container; every operation updates
\* the cell with the given id and leaves the order alone.
IndexOf(cs, id) ==
  IF \E i \in 1..Len(cs) : cs[i].id = id
  THEN CHOOSE i \in 1..Len(cs) : cs[i].id = id
  ELSE 0

HasCell(cs, id) == IndexOf(cs, id) # 0

Find(cs, id) == cs[IndexOf(cs, id)]

updateCellStatus(cs, id, st) ==
  [i \in 1..Len(cs) |-> IF cs[i].id = id THEN [cs[i] EXCEPT !.status = st] ELSE cs[i]]

updateCellOutputs(cs, id, outs) ==
  [i \in 1..Len(cs) |-> IF cs[i].id = id THEN [cs[i] EXCEPT !.outputs = outs] ELSE cs[i]]

updateCellExecutionCount(cs, id, n) ==
  [i \in 1..Len(cs) |-> IF cs[i].id = id THEN [cs[i] EXCEPT !.executionCount = n] ELSE cs[i]]

clearAllOutputs(cs) ==
  [i \in 1..Len(cs) |-> [cs[i] EXCEPT !.outputs = <<>>, !.status = "idle"]]

updateCellSource(cs, id, text) ==
  [i \in 1..Len(cs) |-> IF cs[i].id = id THEN [cs[i] EXCEPT !.source = text] ELSE cs[i]]

\* A cell as the store creates it: empty, idle, without outputs or count.
NewCell(id, type) ==
  [id |-> id, type |-> type, source |-> <<>>, status |-> "idle", outputs |-> <<>>,
   executionCount |-> NoCount]

\* addCell(type, position): position counts the cells before the new one.
addCell(cs, id, type, position) ==
  SubSeq(cs, 1, position) \o <<NewCell(id, type)>> \o SubSeq(cs, position + 1, Len(cs))

deleteCell(cs, id) == SelectSeq(cs, LAMBDA c : c.id # id)

Swap(cs, i, j) ==
  [k \in 1..Len(cs) |-> IF k = i THEN cs[j] ELSE IF k = j THEN cs[i] ELSE cs[k]]

\* moveCellUp and moveCellDown do nothing at the boundaries.
moveCellUp(cs, id) ==
  IF IndexOf(cs, id) > 1 THEN Swap(cs, IndexOf(cs, id) - 1, IndexOf(cs, id)) ELSE cs

moveCellDown(cs, id) ==
  IF IndexOf(cs, id) # 0 /\ IndexOf(cs, id) < Len(cs)
  THEN Swap(cs, IndexOf(cs, id), IndexOf(cs, id) + 1)
  ELSE cs

\* ---------------------------------------------------------- kernel client
\* lib/jupyter/kernel-client: isReady() is true only in idle and busy.
isReady(s) == s \in {"idle", "busy"}

Unfinished(xs) == {r \in 1..Len(xs) : xs[r].phase \in {"inflight", "invalid"}}

InFlight(xs) == {r \in 1..Len(xs) : xs[r].phase = "inflight"}

\* The session status once execution r has ended: busy while another
\* execution is still in flight.
SessionAfter(s, xs, r) ==
  IF ~isReady(s) THEN s
  ELSE IF InFlight(xs) \ {r} # {} THEN "busy" ELSE "idle"

\* An execution that has ended keeps its place in execs and nothing else.
Ended(phase) ==
  [cell |-> 0, source |-> <<>>, base |-> <<>>, prior |-> <<>>, received |-> <<>>,
   phase |-> phase, inBatch |-> FALSE]

\* The outputs executeCode resolves with: the events it emitted, in order.
ResultOutputs(x) == x.received

\* ------------------------------------------------------------- executeCell
\* The part of the state the handlers below read and write, as one record, so
\* that a handler can be continued by another in the same step.
Cur ==
  [cells |-> cells, kernelStatus |-> kernelStatus, session |-> session,
   kernelCount |-> kernelCount, execs |-> execs, batch |-> batch,
   batchLog |-> batchLog, toast |-> ""]

\* Faulty variant: the readiness check placed after setKernelStatus('busy').
RefuseNotReadyAfterBusy(S) == [S EXCEPT !.toast = "Kernel is not ready", !.kernelStatus = "busy"]

\* if (!kernelClient || !kernelClient.isReady()) { toast.error(...); return }
RefuseNotReady(S) == [S EXCEPT !.toast = "Kernel is not ready"]

\* const cell = cells.find(...); if (!cell || cell.type !== 'code') return
\* (cells is the array the callback closed over, snap).
IsCodeCell(snap, cellId) == HasCell(snap, cellId) /\ Find(snap, cellId).type = "code"

\* cells.find((c) => c.id === cellId)?.outputs || [] in the output callback:
\* the outputs of the cell in the array the callback closed over.
ClosedOverOutputs(snap, cellId) ==
  IF HasCell(snap, cellId) THEN Find(snap, cellId).outputs ELSE <<>>

\* updateCellStatus(cellId, 'running'); updateCellOutputs(cellId, [])
MarkRunning(cs, cellId) == updateCellOutputs(updateCellStatus(cs, cellId, "running"), cellId, <<>>)

\* Faulty variant: the source is read from the store when the cell is submitted.
SubmittedSourceFromStore(cs, snap, cellId) ==
  IF HasCell(cs, cellId) THEN Find(cs, cellId).source ELSE Find(snap, cellId).source

\* kernelClient.executeCode(cell.source, ...): cell is the cell found in the
\* array the callback closed over.
SubmittedSource(cs, snap, cellId) == Find(snap, cellId).source

\* The try block up to await kernelClient.executeCode(...): the cell is marked
\* running and emptied, the status set busy, the source submitted.  The
\* client's status callback reports busy as the execution starts and idle as
\* it ends, the values the handler sets itself at these two points.  prior is
\* history: the outputs the cell held when the run was requested.
StartExecution(S, cellId, snap, inBatch) ==
  [S EXCEPT
     !.cells = MarkRunning(S.cells, cellId),
     !.kernelStatus = "busy",
     !.session = "busy",
     !.execs = Append(S.execs,
                 [cell |-> cellId,
                  source |-> SubmittedSource(S.cells, snap, cellId),
                  base |-> ClosedOverOutputs(snap, cellId),
                  prior |-> ClosedOverOutputs(S.cells, cellId),
                  received |-> <<>>,
                  phase |-> "inflight",
                  inBatch |-> inBatch])]

executeCell(S, client, cellId, snap, inBatch) ==
  IF ~(client /\ isReady(S.session)) THEN RefuseNotReady(S)
  ELSE IF ~IsCodeCell(snap, cellId) THEN S
  ELSE StartExecution(S, cellId, snap, inBatch)

Submitted(S, T) == Len(T.execs) > Len(S.execs)

\* (output) => updateCellOutputs(cellId, [...closed-over outputs, output])
StreamedOutputs(x, output) == Append(x.base, output)

OnOutput(S, r, output) ==
  [S EXCEPT
     !.cells = updateCellOutputs(S.cells, S.execs[r].cell, StreamedOutputs(S.execs[r], output)),
     !.execs[r].received = Append(S.execs[r].received, output)]

\* Faulty variant: only the last output is looked at.
hasErrorLastOnly(outs) == outs # <<>> /\ outs[Len(outs)].output_type = "error"

\* result.outputs.some((output) => output.output_type === 'error')
hasError(outs) == \E i \in 1..Len(outs) : outs[i].output_type = "error"

\* Faulty variant: line 107 left out, so the cell keeps what the output callback wrote.
FinalOutputsKeepStreamed(x) ==
  IF x.received = <<>> THEN <<>> ELSE Append(x.base, x.received[Len(x.received)])

\* updateCellOutputs(cellId, result.outputs)
FinalOutputs(x) == ResultOutputs(x)

\* if (result.executionCount !== null) updateCellExecutionCount(...)
WithExecutionCount(cs, cellId, count) ==
  IF count # NoCount THEN updateCellExecutionCount(cs, cellId, count) ELSE cs

\* updateCellStatus(cellId, hasError ? 'error' : 'completed')
TerminalStatus(outs) == IF hasError(outs) THEN "error" ELSE "completed"

\* Faulty variant: an error output is taken for a failure of the session.
StatusAfterExecutionEscalates(outs) == IF hasError(outs) THEN "disconnected" ELSE "idle"

\* setKernelStatus('idle') at the end of the try block, whatever the outputs.
StatusAfterExecution(outs) == "idle"

\* The continuation of await executeCode when it resolves.
OnResolve(S, r, count) ==
  LET x == S.execs[r]
      c1 == WithExecutionCount(S.cells, x.cell, count)
      c2 == updateCellOutputs(c1, x.cell, FinalOutputs(x))
      c3 == updateCellStatus(c2, x.cell, TerminalStatus(ResultOutputs(x)))
  IN [S EXCEPT
        !.cells = c3,
        !.kernelStatus = StatusAfterExecution(ResultOutputs(x)),
        !.session = SessionAfter(S.session, S.execs, r),
        !.kernelCount = S.kernelCount + 1,
        !.execs[r] = Ended("done")]

\* catch (error): updateCellStatus(cellId, 'error'); setKernelStatus('idle')
CatchStatus == "idle"

OnReject(S, r) ==
  [S EXCEPT
     !.cells = updateCellStatus(S.cells, S.execs[r].cell, "error"),
     !.kernelStatus = CatchStatus,
     !.execs[r] = Ended("failed"),
     !.toast = "Cell execution failed"]

\* ------------------------------------------------------------- runAllCells
NoBatch == [active |-> FALSE, todo |-> <<>>, snap |-> <<>>, cur |-> 0]

CodeIds(cs) ==
  LET F[i \in 0..Len(cs)] ==
        IF i = 0 THEN <<>>
        ELSE IF cs[i].type = "code" THEN Append(F[i - 1], cs[i].id) ELSE F[i - 1]
  IN F[Len(cs)]

\* The source texts of the code cells, in notebook order.
CodeTexts(cs) ==
  LET F[i \in 0..Len(cs)] ==
        IF i = 0 THEN <<>>
        ELSE IF cs[i].type = "code" THEN Append(F[i - 1], cs[i].source) ELSE F[i - 1]
  IN F[Len(cs)]

\* Faulty variant: the loop runs every cell.
LoopRunsEveryCell(cell) == TRUE

\* if (cell.type === 'code') in the loop body
LoopRuns(cell) == cell.type = "code"

\* for (const cell of cells) { if (cell.type === 'code') await executeCell(cell.id) }
\* todo is the rest of the closed-over array; the loop runs until an
\* executeCell call suspends at its await, or to its end.
RECURSIVE runAllLoop(_, _, _, _)
runAllLoop(S, client, todo, snap) ==
  IF todo = <<>>
  THEN [S EXCEPT !.batch = NoBatch, !.batchLog.finished = TRUE]
  ELSE IF ~LoopRuns(Head(todo)) THEN runAllLoop(S, client, Tail(todo), snap)
  ELSE LET id == Head(todo).id
           T == executeCell(S, client, id, snap, TRUE)
           U == [T EXCEPT !.batchLog.calls = Append(T.batchLog.calls, id)]
       IN IF Submitted(S, T)
          THEN [U EXCEPT !.batch = [active |-> TRUE, todo |-> Tail(todo),
                                    snap |-> snap, cur |-> Len(T.execs)],
                         !.batchLog.submitted = Append(U.batchLog.submitted, id)]
          ELSE runAllLoop(U, client, Tail(todo), snap)

\* Faulty variant: the loop stops at the first cell that ends in error.
AfterExecutionAbortOnError(S, client, r) ==
  IF S.batch.active /\ S.batch.cur = r
  THEN IF Find(S.cells, S.batchLog.submitted[Len(S.batchLog.submitted)]).status = "error"
       THEN [S EXCEPT !.batch = NoBatch, !.batchLog.finished = TRUE]
       ELSE runAllLoop(S, client, S.batch.todo, S.batch.snap)
  ELSE S

\* The loop goes on when the execution it awaits has ended.
AfterExecution(S, client, r) ==
  IF S.batch.active /\ S.batch.cur = r
  THEN runAllLoop(S, client, S.batch.todo, S.batch.snap)
  ELSE S

\* The session is lost (a transport failure): the client's status becomes
\* disconnected and every executeCode call still pending rejects, in call order.
RECURSIVE RejectAll(_, _)
RejectAll(S, client) ==
  IF Unfinished(S.execs) = {} THEN S
  ELSE LET r == CHOOSE q \in Unfinished(S.execs) : \A p \in Unfinished(S.execs) : q <= p
       IN RejectAll(AfterExecution(OnReject(S, r), client, r), client)

Disconnect(S, client) == RejectAll([S EXCEPT !.session = "disconnected"], client)

Commit(S) ==
  /\ cells' = S.cells
  /\ kernelStatus' = S.kernelStatus
  /\ session' = S.session
  /\ kernelCount' = S.kernelCount
  /\ execs' = S.execs
  /\ batch' = S.batch
  /\ batchLog' = S.batchLog
  /\ toast' = S.toast

\* ------------------------------------------------------------------- Init
NoLog == [code |-> <<>>, text |-> <<>>, calls |-> <<>>, submitted |-> <<>>,
          interrupted |-> FALSE, finished |-> FALSE]

InitialCells ==
  [i \in 1..Len(InitialTypes) |->
     [id |-> i, type |-> InitialTypes[i], source |-> InitialSource, status |-> "idle",
      outputs |-> <<>>, executionCount |-> NoCount]]

Init ==
  /\ cells = InitialCells
  /\ kernelStatus = "disconnected"
  /\ kernelClient = FALSE
  /\ isInitializing = TRUE
  /\ initError = FALSE
  /\ initPc = "mount"
  /\ mountCells = <<>>
  /\ session = "disconnected"
  /\ kernelCount = 0
  /\ execs = <<>>
  /\ opsLeft = MaxOps
  /\ eventsUsed = 0
  /\ batch = NoBatch
  /\ batchLog = NoLog
  /\ restartPending = FALSE
  /\ interruptPending = FALSE
  /\ toast = ""
  /\ mountAdded = <<>>
  /\ exported = <<>>
  /\ superseded = 0

\* -------------------------------------------------------------- initKernel
\* The effect up to await client.startSession('python3').
InitKernel ==
  /\ initPc = "mount"
  /\ initPc' = "awaiting"
  /\ isInitializing' = TRUE
  /\ kernelStatus' = "connecting"
  /\ kernelClient' = TRUE
  /\ session' = "connecting"
  /\ UNCHANGED <<aux, cells, initError, mountCells, kernelCount, execs, opsLeft,
                 eventsUsed, batch, batchLog, restartPending, interruptPending>>
  /\ toast' = ""

\* The notebook (toolbar and cells) is rendered only past the loading and the
\* error screens.
Rendered == ~isInitializing /\ ~initError

\* This step brings the notebook on screen: every cell's editor mounts, its
\* Shift+Enter command closing over this render's onRun.
Mounts == ~Rendered /\ Rendered'

\* startSession resolved: the notebook is rendered and every cell's editor
\* mounts.
StartSessionOk ==
  /\ initPc = "awaiting"
  /\ initPc' = "done"
  /\ kernelStatus' = "idle"
  /\ isInitializing' = FALSE
  /\ session' = "idle"
  /\ toast' = ""
  /\ UNCHANGED <<exported, superseded, cells, kernelClient, initError, kernelCount, execs, opsLeft,
                 eventsUsed, batch, batchLog, restartPending, interruptPending>>
  /\ mountCells' = IF Mounts THEN cells ELSE mountCells
  /\ mountAdded' = IF Mounts THEN [k \in 1..Len(mountAdded) |-> cells] ELSE mountAdded

\* Faulty variant: the catch block sets idle, as the other catch blocks do.
ConnectCatchStatusIdle == "idle"

\* catch (error): setInitError(...); setKernelStatus('disconnected')
ConnectCatchStatus == "disconnected"

\* startSession rejected: the catch block.
StartSessionFail ==
  /\ initPc = "awaiting"
  /\ initPc' = "done"
  /\ initError' = TRUE
  /\ kernelStatus' = ConnectCatchStatus
  /\ isInitializing' = FALSE
  /\ session' = "disconnected"
  /\ toast' = "Failed to connect to Jupyter kernel"
  /\ UNCHANGED <<aux, cells, kernelClient, mountCells, kernelCount, execs, opsLeft,
                 eventsUsed, batch, batchLog, restartPending, interruptPending>>

\* NotebookToolbar: isKernelReady and isKernelBusy gate its buttons.
isKernelReady == kernelStatus \in {"connected", "idle", "busy"}

isKernelBusy == kernelStatus \in {"busy", "restarting"}

CellIds == {cells[i].id : i \in 1..Len(cells)}

\* ------------------------------------------------------------ cell requests
\* One user request: it takes one of the MaxOps requests of a behaviour.
UserOp ==
  /\ opsLeft > 0
  /\ opsLeft' = opsLeft - 1

Request(T) ==
  /\ UserOp
  /\ Commit(T)
  /\ UNCHANGED <<aux, kernelClient, isInitializing, initError, initPc, mountCells,
                 eventsUsed, restartPending, interruptPending>>

\* The cell's Run button (disabled while the cell is running): onRun of the
\* latest render, whose executeCell closes over the current cells.
RunCellClick(c) ==
  /\ Rendered
  /\ Find(cells, c).status # "running"
  /\ Request(executeCell(Cur, kernelClient, c, cells, FALSE))

\* The cells the Shift+Enter command of cell c closed over: those of the render
\* its editor was mounted in, the first render of the notebook or, for a cell
\* added later, the render that followed the adding.
MountSnapshot(c) ==
  IF c > Len(InitialTypes) THEN mountAdded[c - Len(InitialTypes)] ELSE mountCells

\* Shift+Enter in the cell's editor: onRun of the render the editor was
\* mounted in, whose executeCell closes over the cells of that render.
ShiftEnter(c) ==
  /\ Rendered
  /\ Request(executeCell(Cur, kernelClient, c, MountSnapshot(c), FALSE))

\* -------------------------------------------------------------- the kernel
\* The kernel emits one output of execution r: the output callback runs.
KernelOutput(r, t) ==
  /\ r \in InFlight(execs)
  /\ isReady(session)
  /\ eventsUsed < MaxEvents
  /\ eventsUsed' = eventsUsed + 1
  /\ Commit(OnOutput(Cur, r, [run |-> r, k |-> Len(execs[r].received) + 1,
                              output_type |-> t]))
  /\ UNCHANGED <<aux, kernelClient, isInitializing, initError, initPc, mountCells,
                 opsLeft, restartPending, interruptPending>>

\* The executionCount of a result: the kernel's counter numbers its successful
\* executions, so an execution that reported an error may come back without.
ExecutionCounts(x, n) ==
  IF hasError(x.received) THEN {NoCount, n + 1} ELSE {n + 1}

\* executeCode of execution r resolves, with the kernel's counter or without.
ExecResolve(r, count) ==
  /\ r \in InFlight(execs)
  /\ isReady(session)
  /\ Commit(AfterExecution(OnResolve(Cur, r, count), kernelClient, r))
  /\ UNCHANGED <<aux, kernelClient, isInitializing, initError, initPc, mountCells,
                 opsLeft, eventsUsed, restartPending, interruptPending>>

\* executeCode of execution r, which a restart has invalidated, rejects.
ExecReject(r) ==
  /\ r \in Unfinished(execs) \ InFlight(execs)
  /\ Commit(AfterExecution(OnReject(Cur, r), kernelClient, r))
  /\ UNCHANGED <<aux, kernelClient, isInitializing, initError, initPc, mountCells,
                 opsLeft, eventsUsed, restartPending, interruptPending>>

\* A transport failure during the stream of an execution.
TransportFailure ==
  /\ InFlight(execs) # {}
  /\ isReady(session)
  /\ Commit(Disconnect(Cur, kernelClient))
  /\ UNCHANGED <<aux, kernelClient, isInitializing, initError, initPc, mountCells,
                 opsLeft, eventsUsed, restartPending, interruptPending>>

\* ---------------------------------------------------------------- run all
RunAllClick ==
  /\ Rendered
  /\ isKernelReady
  /\ ~batch.active
  /\ UserOp
  /\ Commit(runAllLoop([Cur EXCEPT !.batchLog = [NoLog EXCEPT !.code = CodeIds(cells),
                                                             !.text = CodeTexts(cells)]],
                       kernelClient, cells, cells))
  /\ UNCHANGED <<aux, kernelClient, isInitializing, initError, initPc, mountCells,
                 eventsUsed, restartPending, interruptPending>>

\* ----------------------------------------------------------- restartKernel
Invalidate(xs) ==
  [r \in 1..Len(xs) |->
     IF xs[r].phase = "inflight" THEN [xs[r] EXCEPT !.phase = "invalid"] ELSE xs[r]]

\* restartKernel up to await kernelClient.restart(): the client tears the
\* session down, which invalidates the executions in flight.
RestartClick ==
  /\ Rendered
  /\ kernelClient
  /\ isKernelReady
  /\ ~restartPending
  /\ UserOp
  /\ restartPending' = TRUE
  /\ kernelStatus' = "restarting"
  /\ session' = IF isReady(session) THEN "restarting" ELSE session
  /\ execs' = IF isReady(session) THEN Invalidate(execs) ELSE execs
  /\ UNCHANGED <<aux, cells, kernelClient, isInitializing, initError, initPc, mountCells,
                 kernelCount, eventsUsed, batch, batchLog, interruptPending>>
  /\ toast' = ""

\* Faulty variant: the restart does not clear the outputs.
AfterRestartKeepOutputs(cs) == cs

\* setKernelStatus('idle'); clearAllOutputs() after the restart succeeded
AfterRestart(cs) == clearAllOutputs(cs)

\* Faulty variant: the restart leaves the cells' execution counts alone.
InvalidateExecutionCountsNone(cs) == cs

\* kernelClient.restart(): it resets the kernel's counter and invalidates the
\* executionCount of every cell.
InvalidateExecutionCounts(cs) ==
  [i \in 1..Len(cs) |-> [cs[i] EXCEPT !.executionCount = NoCount]]

RestartOk ==
  /\ restartPending
  /\ session = "restarting"
  /\ restartPending' = FALSE
  /\ session' = "idle"
  /\ kernelCount' = 0
  /\ kernelStatus' = "idle"
  /\ cells' = AfterRestart(InvalidateExecutionCounts(cells))
  /\ toast' = ""
  /\ UNCHANGED <<aux, kernelClient, isInitializing, initError, initPc, mountCells,
                 execs, opsLeft, eventsUsed, batch, batchLog, interruptPending>>

\* catch (error): toast.error(...); setKernelStatus('idle')
RestartCatchStatus == "idle"

\* kernelClient.restart() rejects: the session is lost, then the catch block.
RestartFail ==
  /\ restartPending
  /\ restartPending' = FALSE
  /\ Commit([Disconnect(Cur, kernelClient) EXCEPT
               !.kernelStatus = RestartCatchStatus,
               !.toast = "Failed to restart kernel"])
  /\ UNCHANGED <<aux, kernelClient, isInitializing, initError, initPc, mountCells,
                 opsLeft, eventsUsed, interruptPending>>

\* --------------------------------------------------------- interruptKernel
\* interruptKernel up to await kernelClient.interrupt().
InterruptClick ==
  /\ Rendered
  /\ kernelClient
  /\ isKernelBusy
  /\ ~interruptPending
  /\ UserOp
  /\ interruptPending' = TRUE
  /\ batchLog' = IF batch.active THEN [batchLog EXCEPT !.interrupted = TRUE] ELSE batchLog
  /\ UNCHANGED <<aux, cells, kernelStatus, kernelClient, isInitializing, initError, initPc,
                 mountCells, session, kernelCount, execs, eventsUsed,
                 batch, restartPending>>
  /\ toast' = ""

InterruptAck ==
  /\ interruptPending
  /\ session # "disconnected"
  /\ interruptPending' = FALSE
  /\ kernelStatus' = "idle"
  /\ toast' = ""
  /\ UNCHANGED <<aux, cells, kernelClient, isInitializing, initError, initPc, mountCells,
                 session, kernelCount, execs, opsLeft, eventsUsed, batch, batchLog,
                 restartPending>>

\* kernelClient.interrupt() rejects: the session is lost, then the catch block.
InterruptFail ==
  /\ interruptPending
  /\ interruptPending' = FALSE
  /\ Commit([Disconnect(Cur, kernelClient) EXCEPT !.toast = "Failed to interrupt kernel"])
  /\ UNCHANGED <<aux, kernelClient, isInitializing, initError, initPc, mountCells,
                 opsLeft, eventsUsed, restartPending>>

\* ------------------------------------------------------- clear all outputs
ClearAllOutputsClick ==
  /\ Rendered
  /\ UserOp
  /\ cells' = clearAllOutputs(cells)
  /\ UNCHANGED <<aux, kernelStatus, kernelClient, isInitializing, initError, initPc,
                 mountCells, session, kernelCount, execs, eventsUsed,
                 batch, batchLog, restartPending, interruptPending>>
  /\ toast' = ""

\* ------------------------------------------------------------------- Next
Next ==
  \/ InitKernel
  \/ StartSessionOk
  \/ StartSessionFail
  \/ \E c \in CellIds : RunCellClick(c)
  \/ \E c \in CellIds : ShiftEnter(c)
  \/ \E r \in 1..Len(execs), t \in OutputTypes : KernelOutput(r, t)
  \/ \E r \in 1..Len(execs) : \E count \in ExecutionCounts(execs[r], kernelCount) :
        ExecResolve(r, count)
  \/ \E r \in 1..Len(execs) : ExecReject(r)
  \/ TransportFailure
  \/ RunAllClick
  \/ RestartClick
  \/ RestartOk
  \/ RestartFail
  \/ InterruptClick
  \/ InterruptAck
  \/ InterruptFail
  \/ ClearAllOutputsClick

Spec == Init /\ [][Next]_vars

\* ------------------------------------------------- the kernel's scheduling
\* The kernel acknowledges every interrupt; whether the execution it
\* interrupts ever ends is left open.
SpecAcked == Spec /\ WF_vars(InterruptAck)

\* Some execution in flight ends.
SomeResolve ==
  \E r \in 1..Len(execs) : \E count \in ExecutionCounts(execs[r], kernelCount) :
    ExecResolve(r, count)

\* The kernel ends every execution it runs; whether it ever answers an
\* interrupt is left open.
SpecUnacked == Spec /\ WF_vars(SomeResolve)

\* ------------------------------------------------- a new connection attempt
\* jupyterUrl or jupyterToken changes (the effect's dependencies): React runs
\* the effect's cleanup, resetKernelClient(), and then the effect again, up to
\* await client.startSession('python3') on the new client.  The store's
\* kernel status is whatever the previous attempt and its session left.
\* Taken when the previous attempt has settled and no call is pending on the
\* client that is torn down.
PropsChange ==
  /\ initPc = "done"
  /\ Unfinished(execs) = {}
  /\ ~restartPending
  /\ ~interruptPending
  /\ ~batch.active
  /\ UserOp
  /\ initPc' = "awaiting"
  /\ isInitializing' = TRUE
  /\ kernelStatus' = "connecting"
  /\ kernelClient' = TRUE
  /\ session' = "connecting"
  /\ kernelCount' = 0
  /\ toast' = ""
  /\ UNCHANGED <<aux, cells, initError, mountCells, execs, eventsUsed, batch, batchLog,
                 restartPending, interruptPending>>

NextReconnect == Next \/ PropsChange

SpecReconnect == Init /\ [][NextReconnect]_vars

\* -------------------------------------- an attempt overtaken by another one
\* How many overtaken runs of initKernel a behaviour may hold at a time.
MaxSuperseded == 1

\* jupyterUrl or jupyterToken changes while initKernel is still suspended at
\* await client.startSession('python3'): the cleanup calls resetKernelClient()
\* and the effect runs again, on a new client, up to its own await.  The
\* earlier run of initKernel is not cancelled and holds no flag that tells it
\* that it was overtaken.
PropsChangeConnecting ==
  /\ initPc = "awaiting"
  /\ superseded < MaxSuperseded
  /\ Unfinished(execs) = {}
  /\ ~restartPending
  /\ ~interruptPending
  /\ ~batch.active
  /\ UserOp
  /\ superseded' = superseded + 1
  /\ isInitializing' = TRUE
  /\ kernelStatus' = "connecting"
  /\ kernelClient' = TRUE
  /\ session' = "connecting"
  /\ kernelCount' = 0
  /\ toast' = ""
  /\ UNCHANGED <<mountAdded, exported, cells, initError, initPc, mountCells, execs,
                 eventsUsed, batch, batchLog, restartPending, interruptPending>>

\* startSession of a torn-down client resolves: the overtaken initKernel goes
\* on after its await with setKernelStatus('idle'), setIsInitializing(false).
StaleSessionOk ==
  /\ superseded > 0
  /\ superseded' = superseded - 1
  /\ kernelStatus' = "idle"
  /\ isInitializing' = FALSE
  /\ toast' = ""
  /\ UNCHANGED <<exported, cells, kernelClient, initError, initPc, session, kernelCount,
                 execs, opsLeft, eventsUsed, batch, batchLog, restartPending,
                 interruptPending>>
  /\ mountCells' = IF Mounts THEN cells ELSE mountCells
  /\ mountAdded' = IF Mounts THEN [k \in 1..Len(mountAdded) |-> cells] ELSE mountAdded

\* startSession of a torn-down client rejects: the overtaken initKernel runs
\* its catch block.
StaleSessionFail ==
  /\ superseded > 0
  /\ superseded' = superseded - 1
  /\ initError' = TRUE
  /\ kernelStatus' = ConnectCatchStatus
  /\ isInitializing' = FALSE
  /\ toast' = "Failed to connect to Jupyter kernel"
  /\ UNCHANGED <<mountAdded, exported, cells, kernelClient, initPc, mountCells, session,
                 kernelCount, execs, opsLeft, eventsUsed, batch, batchLog,
                 restartPending, interruptPending>>

NextSupersede ==
  \/ NextReconnect
  \/ PropsChangeConnecting
  \/ StaleSessionOk
  \/ StaleSessionFail

SpecSupersede == Init /\ [][NextSupersede]_vars

\* ----------------------------------------------------- editing the notebook
\* What one edit in the editor (or the textarea) of a cell makes of its
\* source: a letter typed at the end.
Edits(text) == IF Len(text) < MaxChars THEN {Append(text, "x")} ELSE {}

\* Faulty variant: an edit also resets the cell, as clearing its outputs would.
onSourceChangeResets(cs, id, text) ==
  updateCellOutputs(updateCellStatus(updateCellSource(cs, id, text), id, "idle"), id, <<>>)

\* onSourceChange={(source) => updateCellSource(cell.id, source)}
onSourceChange(cs, id, text) == updateCellSource(cs, id, text)

\* The editor's onChange: it has no disabled or read-only state.
EditSource(c, text) ==
  /\ Rendered
  /\ UserOp
  /\ cells' = onSourceChange(cells, c, text)
  /\ toast' = ""
  /\ UNCHANGED <<aux, kernelStatus, kernelClient, isInitializing, initError, initPc,
                 mountCells, session, kernelCount, execs, eventsUsed,
                 batch, batchLog, restartPending, interruptPending>>

\* The id of the next cell created: ids are never reused.
NextId == Len(InitialTypes) + Len(mountAdded) + 1

\* + Code Cell, + Markdown Cell: addCell(type, cells.length); the editor of
\* the new cell mounts in the render that follows.
AddCellClick(type) ==
  /\ Rendered
  /\ UserOp
  /\ cells' = addCell(cells, NextId, type, Len(cells))
  /\ mountAdded' = Append(mountAdded, cells')
  /\ toast' = ""
  /\ UNCHANGED <<exported, superseded, kernelStatus, kernelClient, isInitializing, initError, initPc,
                 mountCells, session, kernelCount, execs, eventsUsed,
                 batch, batchLog, restartPending, interruptPending>>

\* The cell's Delete button.
DeleteCellClick(c) ==
  /\ Rendered
  /\ UserOp
  /\ cells' = deleteCell(cells, c)
  /\ toast' = ""
  /\ UNCHANGED <<aux, kernelStatus, kernelClient, isInitializing, initError, initPc,
                 mountCells, session, kernelCount, execs, eventsUsed,
                 batch, batchLog, restartPending, interruptPending>>

\* The cell's Move up button, disabled on the first cell.
MoveUpClick(c) ==
  /\ Rendered
  /\ IndexOf(cells, c) > 1
  /\ UserOp
  /\ cells' = moveCellUp(cells, c)
  /\ toast' = ""
  /\ UNCHANGED <<aux, kernelStatus, kernelClient, isInitializing, initError, initPc,
                 mountCells, session, kernelCount, execs, eventsUsed,
                 batch, batchLog, restartPending, interruptPending>>

\* The cell's Move down button, disabled on the last cell.
MoveDownClick(c) ==
  /\ Rendered
  /\ IndexOf(cells, c) < Len(cells)
  /\ UserOp
  /\ cells' = moveCellDown(cells, c)
  /\ toast' = ""
  /\ UNCHANGED <<aux, kernelStatus, kernelClient, isInitializing, initError, initPc,
                 mountCells, session, kernelCount, execs, eventsUsed,
                 batch, batchLog, restartPending, interruptPending>>

\* The interface with the editing of the cells' sources.
NextEdit ==
  \/ Next /\ eventsUsed' <= MaxEditEvents
  \/ \E c \in CellIds : \E text \in Edits(Find(cells, c).source) : EditSource(c, text)

SpecEdit == Init /\ [][NextEdit]_vars

\* The interface with every operation on the notebook.
NextNotebook ==
  \/ NextEdit
  \/ \E type \in {"code", "markdown"} : AddCellClick(type)
  \/ \E c \in CellIds : DeleteCellClick(c)
  \/ \E c \in CellIds : MoveUpClick(c)
  \/ \E c \in CellIds : MoveDownClick(c)

SpecNotebook == Init /\ [][NextNotebook]_vars

\* ------------------------------------------------------ export and import
\* cell.source.split('\n'): the pieces between the separators, the empty
\* ones included; a text without separator is one piece.
RECURSIVE SplitLines(_)
SplitLines(text) ==
  IF \A i \in 1..Len(text) : text[i] # "\n"
  THEN <<text>>
  ELSE LET i == CHOOSE k \in 1..Len(text) :
                  text[k] = "\n" /\ \A j \in 1..(k - 1) : text[j] # "\n"
       IN <<SubSeq(text, 1, i - 1)>> \o SplitLines(SubSeq(text, i + 1, Len(text)))

\* The entry of one cell in the exported document (the metadata entry, an
\* empty object for every cell of the model, is left out).
ExportedCell(cell) ==
  [cell_type |-> cell.type,
   source |-> SplitLines(cell.source),
   outputs |-> cell.outputs,
   execution_count |-> cell.executionCount]

\* cells.map(...) in exportNotebook: the document's cells, in notebook order.
exportNotebook(cs) == [i \in 1..Len(cs) |-> ExportedCell(cs[i])]

\* The document declares nbformat 4 and is downloaded as notebook.ipynb: in
\* that format the lines of a source carry their own line ends, and a reader
\* joins them with nothing in between.
RECURSIVE JoinLines(_)
JoinLines(lines) ==
  IF lines = <<>> THEN <<>> ELSE Head(lines) \o JoinLines(Tail(lines))

\* The greatest id in use.
RECURSIVE MaxId(_)
MaxId(cs) ==
  IF cs = <<>> THEN 0
  ELSE LET m == MaxId(Tail(cs)) IN IF Head(cs).id > m THEN Head(cs).id ELSE m

\* A reader of the format imports the document: one new cell per entry, in
\* the document's order, with the entry's kind, source, outputs and count.
importNotebook(doc, firstId) ==
  [i \in 1..Len(doc) |->
     [id |-> firstId + i - 1,
      type |-> doc[i].cell_type,
      source |-> JoinLines(doc[i].source),
      status |-> "idle",
      outputs |-> doc[i].outputs,
      executionCount |-> doc[i].execution_count]]

\* The toolbar's Export button: exportNotebook downloads the document.
ExportClick ==
  /\ Rendered
  /\ UserOp
  /\ exported' = <<exportNotebook(cells)>>
  /\ toast' = ""
  /\ UNCHANGED <<cells, mountAdded, superseded, kernelStatus, kernelClient, isInitializing, initError,
                 initPc, mountCells, session, kernelCount, execs, eventsUsed,
                 batch, batchLog, restartPending, interruptPending>>

\* The downloaded document is imported: its cells replace the notebook's.
ImportNotebook ==
  /\ Rendered
  /\ exported # <<>>
  /\ UserOp
  /\ cells' = importNotebook(exported[1], MaxId(cells) + 1)
  /\ mountCells' = cells'
  /\ toast' = ""
  /\ UNCHANGED <<aux, kernelStatus, kernelClient, isInitializing, initError,
                 initPc, session, kernelCount, execs, eventsUsed,
                 batch, batchLog, restartPending, interruptPending>>

\* The texts a cell's source may be: every text of at most MaxChars characters.
Texts == UNION {[1..n -> Chars] : n \in 0..MaxChars}

\* What a cell of an exported notebook may be: a note, a code cell never run,
\* or a code cell that completed a run with one output.
CellForms ==
  [type : {"markdown"}, source : Texts, ran : {FALSE}]
    \cup [type : {"code"}, source : Texts, ran : BOOLEAN]

\* The number of cells among the first i that completed a run.
RanBefore(forms, i) == Cardinality({j \in 1..i : forms[j].ran})

\* The notebook of these cells: the runs were made in notebook order and the
\* kernel numbered them.
CellsOf(forms) ==
  [i \in 1..Len(forms) |->
     [id |-> i,
      type |-> forms[i].type,
      source |-> forms[i].source,
      status |-> IF forms[i].ran THEN "completed" ELSE "idle",
      outputs |-> IF forms[i].ran
                  THEN <<[run |-> RanBefore(forms, i), k |-> 1, output_type |-> "stream"]>>
                  ELSE <<>>,
      executionCount |-> IF forms[i].ran THEN RanBefore(forms, i) ELSE NoCount]]

Notebooks == {CellsOf(forms) : forms \in UNION {[1..n -> CellForms] : n \in 0..MaxCells}}

\* The interface connected and idle, holding any of the notebooks.
InitExport ==
  /\ cells \in Notebooks
  /\ kernelStatus = "idle"
  /\ kernelClient = TRUE
  /\ isInitializing = FALSE
  /\ initError = FALSE
  /\ initPc = "done"
  /\ mountCells = cells
  /\ session = "idle"
  /\ kernelCount = Cardinality({i \in 1..Len(cells) : cells[i].executionCount # NoCount})
  /\ execs = [r \in 1..kernelCount |-> Ended("done")]
  /\ opsLeft = MaxOps
  /\ eventsUsed = kernelCount
  /\ batch = NoBatch
  /\ batchLog = NoLog
  /\ restartPending = FALSE
  /\ interruptPending = FALSE
  /\ toast = ""
  /\ mountAdded = <<>>
  /\ exported = <<>>
  /\ superseded = 0

NextExport ==
  \/ ExportClick
  \/ ImportNotebook

SpecExport == InitExport /\ [][NextExport]_vars

\* ------------------------------------------------------------------ claims
Range(q) == {q[i] : i \in 1..Len(q)}

IsPrefix(p, q) == Len(p) <= Len(q) /\ \A i \in 1..Len(p) : p[i] = q[i]

Terminal == {"completed", "error"}

\* Execution r resolves in this step (the stream completed).
Completes(r) == execs[r].phase = "inflight" /\ execs'[r].phase = "done"

\* The output callback of execution r runs in this step.
Receives(r) ==
  /\ execs[r].phase = "inflight"
  /\ execs'[r].phase = "inflight"
  /\ Len(execs'[r].received) = Len(execs[r].received) + 1

\* C1: when an execution completes, its cell's outputs are exactly the output
\* events received during that execution, in arrival order.
C1_OutputsAfterCompletion ==
  [][\A r \in 1..Len(execs) :
       Completes(r) => Find(cells', execs[r].cell).outputs = execs[r].received]_vars

\* A completed cell holds the two events of one execution, first then second.
C1_Witness ==
  \E i \in 1..Len(cells) :
    /\ cells[i].status = "completed"
    /\ Len(cells[i].outputs) = 2
    /\ cells[i].outputs[1].k = 1
    /\ cells[i].outputs[2].k = 2
    /\ cells[i].outputs[1].run = cells[i].outputs[2].run

\* C2: during an execution the cell's outputs are append-only: after each
\* received event they are exactly the events received so far, in arrival order.
C2_AppendOnly ==
  [][\A r \in 1..Len(execs) :
       Receives(r) => Find(cells', execs[r].cell).outputs = execs'[r].received]_vars

\* C3: once a re-run has cleared the cell's outputs, no output the cell held
\* from the earlier run is among its outputs when an event of the new run is
\* appended (stated for a re-run requested on its own, with no other execution
\* pending).
C3_NoEarlierOutput ==
  [][\A r \in 1..Len(execs) :
       (Receives(r) /\ Unfinished(execs) = {r} /\ ~execs[r].inBatch) =>
         Range(Find(cells', execs[r].cell).outputs) \cap Range(execs[r].prior) = {}]_vars

\* C4: at most one execution is in flight against the session at any time.
C4_OneInFlight == Cardinality(Unfinished(execs)) <= 1

\* C5: a request to execute one cell (Run button or Shift+Enter) made while
\* the session is not ready raises the not-ready error, submits nothing and
\* changes neither a cell nor the session status.
C5_NotReadyNoMutation ==
  [][\A c \in CellIds :
       (/\ RunCellClick(c) \/ ShiftEnter(c)
        /\ ~(kernelClient /\ isReady(session)))
       => /\ toast' = "Kernel is not ready"
          /\ cells' = cells
          /\ kernelStatus' = kernelStatus
          /\ session' = session
          /\ execs' = execs]_vars

\* A request was refused while the session was restarting.
C5_Witness == toast = "Kernel is not ready" /\ session = "restarting" /\ opsLeft < MaxOps

\* C6: run all calls execute for the code cells of the notebook, and for no
\* other cell, in notebook order, and for all of them by the time it ends; a
\* cell is submitted only once the cell submitted before it has reached a
\* terminal status.
C6_RunAllSequential ==
  [][/\ IsPrefix(batchLog'.calls, batchLog'.code)
     /\ IsPrefix(batchLog'.submitted, batchLog'.calls)
     /\ \A i \in 1..Len(batchLog'.calls) : Find(cells', batchLog'.calls[i]).type = "code"
     /\ batchLog'.finished => batchLog'.calls = batchLog'.code
     /\ (batch.active /\ Len(batchLog'.submitted) > Len(batchLog.submitted))
          => /\ Find(cells', batchLog.submitted[Len(batchLog.submitted)]).status \in Terminal
             /\ execs'[batch.cur].phase \in {"done", "failed"}]_vars

\* A batch has ended after submitting both code cells.
C6_Witness == batchLog.finished /\ Len(batchLog.submitted) = 2 /\ Len(batchLog.code) = 2

\* C7: run all over N code cells issues exactly N execute calls, and a cell
\* that ends in error does not end the batch: the call for the next code cell
\* is issued in the step that ends it, and the cell is submitted when the
\* stream had completed.
C7_RunAllContinues ==
  [][/\ batchLog'.finished => Len(batchLog'.calls) = Len(batchLog'.code)
     /\ (/\ batch.active
         /\ execs'[batch.cur].phase \in {"done", "failed"}
         /\ Find(cells', execs[batch.cur].cell).status = "error"
         /\ Len(batchLog.calls) < Len(batchLog.code))
          => /\ Len(batchLog'.calls) > Len(batchLog.calls)
             /\ execs'[batch.cur].phase = "done"
                  => Len(batchLog'.submitted) > Len(batchLog.submitted)]_vars

\* A batch has ended whose first cell ended in error and whose second cell
\* was submitted all the same.
C7_Witness ==
  /\ batchLog.finished
  /\ Len(batchLog.submitted) = 2
  /\ Find(cells, batchLog.submitted[1]).status = "error"
  /\ Find(cells, batchLog.submitted[2]).status = "completed"

\* C8: once a running batch has been cancelled (the interrupt request), it
\* submits no further cell, and the cancelling leaves the cells that had
\* completed as they were.
C8_CancelStopsBatch ==
  [][/\ (batch.active /\ batchLog.interrupted)
          => batchLog'.submitted = batchLog.submitted
     /\ (batch.active /\ ~batchLog.interrupted /\ batchLog'.interrupted)
          => \A i \in 1..Len(cells) :
               cells[i].status = "completed" => cells'[i] = cells[i]]_vars

\* C9: on stream completion the cell's status is error if and only if one of
\* the outputs of that execution is an error output, and completed otherwise.
C9_TerminalStatus ==
  [][\A r \in 1..Len(execs) :
       Completes(r) =>
         LET st == Find(cells', execs[r].cell).status
             err == \E e \in Range(execs[r].received) : e.output_type = "error"
         IN /\ st \in Terminal
            /\ st = "error" <=> err]_vars

\* A cell ended in error on an error output that was not its last output.
C9_Witness ==
  \E i \in 1..Len(cells) :
    /\ cells[i].status = "error"
    /\ Len(cells[i].outputs) = 2
    /\ cells[i].outputs[1].output_type = "error"
    /\ cells[i].outputs[2].output_type = "stream"

\* The restart awaited ends in this step, successfully or not.
RestartSucceeds == restartPending /\ ~restartPending' /\ session' = "idle"

RestartFails == restartPending /\ ~restartPending' /\ session' = "disconnected"

\* C10 as claimed: a restart leaves the outputs of completed cells untouched.
C10_RestartKeepsOutputs ==
  [][(restartPending /\ ~restartPending')
       => \A i \in 1..Len(cells) :
            cells[i].status = "completed" => cells'[i].outputs = cells[i].outputs]_vars

\* C10 as amended: a successful restart empties the outputs of every cell;
\* a failed restart leaves every cell's outputs untouched.
C10_RestartClearsOutputs ==
  [][/\ RestartSucceeds
          => \A i \in 1..Len(cells') : cells'[i].outputs = <<>>
     /\ RestartFails
          => \A i \in 1..Len(cells') : cells'[i].outputs = cells[i].outputs]_vars

\* A restart has succeeded after an execution that had produced an output:
\* no cell holds an output any more.
C10_Witness ==
  /\ eventsUsed > 0
  /\ opsLeft = 0
  /\ kernelCount = 0
  /\ \E r \in 1..Len(execs) : execs[r].phase = "done"
  /\ \A i \in 1..Len(cells) : cells[i].outputs = <<>> /\ cells[i].status = "idle"

SettlesAfterRestart(r) ==
  /\ ~restartPending
  /\ execs[r].phase = "invalid"
  /\ execs'[r].phase # "invalid"

\* C12: once a restart has completed, an execution submitted before it writes
\* no output, status or execution count to any cell and does not change the
\* session status.
C12_NoWriteAfterRestart ==
  [][\A r \in 1..Len(execs) :
       SettlesAfterRestart(r)
         => /\ cells' = cells
            /\ kernelStatus' = kernelStatus
            /\ session' = session]_vars

\* C13: when a restart fails, the kernel status the interface holds is forced
\* to disconnected.
C13_RestartFailsClosed ==
  [][RestartFails => kernelStatus' = "disconnected"]_vars

\* C14: an interrupt requested while the status is not busy changes neither
\* the session status nor a cell (stated for an interrupt that is acknowledged
\* in a behaviour in which nothing has been executed, so that the status was
\* not busy when the interrupt was requested).
C14_InterruptNotBusyNoOp ==
  [][(/\ interruptPending
      /\ ~interruptPending'
      /\ toast' = ""
      /\ execs = <<>>)
       => /\ kernelStatus' = kernelStatus
          /\ session' = session
          /\ cells' = cells]_vars

\* Execution r is aborted in this step by a transport failure during its stream.
Aborts(r) == execs[r].phase = "inflight" /\ execs'[r].phase = "failed"

\* C15: when a transport failure aborts an execution, its cell's status
\* becomes error and the cell's outputs still hold every output event the
\* execution had received, in arrival order (stated for an execution that is
\* the only one pending).
C15_FailureKeepsOutputs ==
  [][\A r \in 1..Len(execs) :
       (Aborts(r) /\ Unfinished(execs) = {r} /\ ~execs[r].inBatch) =>
         LET cell == Find(cells', execs[r].cell)
         IN /\ cell.status = "error"
            /\ SelectSeq(cell.outputs, LAMBDA e : e \in Range(execs[r].received))
                 = execs[r].received]_vars

\* A transport failure ends the session in this step.
SessionLost == session # "disconnected" /\ session' = "disconnected"

\* C16: a transport failure during an operation leaves the kernel status the
\* interface holds at disconnected.
C16_FailureDisconnects ==
  [][SessionLost => kernelStatus' = "disconnected"]_vars

\* The edges of the stated state machine of the session status.
StatusEdges ==
  {<<"disconnected", "connecting">>, <<"connecting", "idle">>,
   <<"idle", "busy">>, <<"busy", "idle">>,
   <<"idle", "restarting">>, <<"busy", "restarting">>, <<"restarting", "idle">>}
  \cup {<<s, "disconnected">> : s \in {"connecting", "connected", "idle", "busy", "restarting"}}

\* C17: the kernel status changes only along the edges of the state machine.
C17_StatusEdges ==
  [][kernelStatus' # kernelStatus => <<kernelStatus, kernelStatus'>> \in StatusEdges]_vars

\* A connection attempt starts, succeeds, fails in this step.
AttemptStarts == initPc # "awaiting" /\ initPc' = "awaiting"

AttemptSucceeds == initPc = "awaiting" /\ initPc' = "done" /\ session' = "idle"

AttemptFails == initPc = "awaiting" /\ initPc' = "done" /\ session' = "disconnected"

\* C18: starting a session sets the status to connecting; when the attempt
\* succeeds the status goes from connecting to idle; when it fails the status
\* becomes disconnected and the cause is shown (the error screen with the
\* error's message, and the toast).
C18_StartSession ==
  [][/\ AttemptStarts => kernelStatus' = "connecting"
     /\ AttemptSucceeds => kernelStatus = "connecting" /\ kernelStatus' = "idle"
     /\ AttemptFails => /\ kernelStatus' = "disconnected"
                        /\ initError' /\ ~isInitializing'
                        /\ toast' = "Failed to connect to Jupyter kernel"]_vars

\* A connection attempt made after an earlier one had succeeded has failed.
C18_Witness ==
  /\ initPc = "done"
  /\ mountCells # <<>>
  /\ initError
  /\ ~isInitializing
  /\ kernelStatus = "disconnected"

\* C19: when an execution completes with an error output, its cell's status
\* is error and the kernel status is idle (busy when the run-all loop submits
\* its next cell in the same step); the session is not disconnected.
C19_ErrorContained ==
  [][\A r \in 1..Len(execs) :
       (Completes(r) /\ hasError(execs[r].received))
         => /\ Find(cells', execs[r].cell).status = "error"
            /\ kernelStatus' = IF Len(execs') > Len(execs) THEN "busy" ELSE "idle"
            /\ session' \in {"idle", "busy"}]_vars

\* An execution has ended with one error output: its cell is in error with
\* that output, and the kernel is idle.
C19_Witness ==
  /\ Unfinished(execs) = {}
  /\ kernelStatus = "idle"
  /\ session = "idle"
  /\ \E i \in 1..Len(cells) :
       /\ cells[i].status = "error"
       /\ Len(cells[i].outputs) = 1
       /\ cells[i].outputs[1].output_type = "error"

\* C20: a failed operation leaves the kernel status or the status of some
\* cell different from what it was before the operation was requested (stated
\* for a restart that fails in a behaviour in which nothing has been executed:
\* when it was requested the kernel status was idle and every cell was idle).
C20_NoSilentFailure ==
  [][(RestartFails /\ execs = <<>>)
       => \/ kernelStatus' # "idle"
          \/ \E i \in 1..Len(cells') : cells'[i].status # "idle"]_vars

\* C21: while a cell is running, the source of every other cell can be edited
\* (the edit is enabled as long as the user may act at all), and an edit of
\* cell b changes the source of b and nothing else: no status, no outputs, no
\* execution and not the kernel status.
C21_EditOnlySource ==
  /\ [](\A a \in CellIds : \A b \in CellIds \ {a} :
          (Rendered /\ opsLeft > 0 /\ Find(cells, a).status = "running")
            => \A text \in Edits(Find(cells, b).source) : ENABLED EditSource(b, text))
  /\ [][\A b \in CellIds : \A text \in Edits(Find(cells, b).source) :
          EditSource(b, text)
            => /\ cells' = [i \in 1..Len(cells) |->
                              IF cells[i].id = b THEN [cells[i] EXCEPT !.source = text]
                              ELSE cells[i]]
               /\ execs' = execs
               /\ kernelStatus' = kernelStatus
               /\ session' = session]_vars

\* Cell 3 was edited in a behaviour in which cell 1 is running and has
\* received an output: cell 3 is idle and empty, cell 1 holds its output.
C21_Witness ==
  /\ Find(cells, 1).status = "running"
  /\ Len(Find(cells, 1).outputs) = 1
  /\ Find(cells, 3).source # InitialSource
  /\ Find(cells, 3).status = "idle"
  /\ Find(cells, 3).outputs = <<>>

\* C22: a cell that has never completed a run without an error output since
\* the last restart has no execution count (stated for the first execution of
\* a behaviour, which completes with an error output: its cell has completed
\* no other run).
C22_CountOnlyOnSuccess ==
  [][\A r \in 1..Len(execs) :
       (Completes(r) /\ Len(execs) = 1 /\ hasError(execs[r].received))
         => Find(cells', execs[r].cell).executionCount = NoCount]_vars

\* C23: a cell that is running when an interrupt is requested does not stay
\* running: even if the interrupted execution never ends, the cell leaves the
\* running status once the interrupt is acknowledged.
C23_InterruptedNotRunning ==
  \A c \in 1..Len(InitialTypes) :
    (interruptPending /\ Find(cells, c).status = "running")
      ~> (Find(cells, c).status # "running")

\* C24: an interrupt request does not stay pending for ever, even if the
\* kernel never answers it (stated for a session that stays ready: the wait
\* ends, or the session is lost or restarted).
C24_InterruptEnds ==
  interruptPending ~> (~interruptPending \/ ~isReady(session))

\* Two notebooks hold the same cells in the same order: the same kind, source,
\* outputs and execution count at every position.
SameNotebook(a, b) ==
  /\ Len(a) = Len(b)
  /\ \A i \in 1..Len(a) :
       /\ a[i].type = b[i].type
       /\ a[i].source = b[i].source
       /\ a[i].outputs = b[i].outputs
       /\ a[i].executionCount = b[i].executionCount

\* C25: importing the document exported from the notebook gives the same
\* cells in the same order, with the same kind, source, outputs and execution
\* count.
C25_RoundTrip ==
  [][(ImportNotebook /\ exported = <<exportNotebook(cells)>>)
       => SameNotebook(cells', cells)]_vars

\* C26: whenever a cell is running, the kernel status is busy.
C26_RunningImpliesBusy ==
  (\E i \in 1..Len(cells) : cells[i].status = "running") => kernelStatus = "busy"

\* C27: a request to run one cell (Run button or Shift+Enter) that submits
\* an execution submits the source the cell holds when the request is made.
C27_SubmitsCurrentSource ==
  [][\A c \in CellIds :
       (/\ RunCellClick(c) \/ ShiftEnter(c)
        /\ Len(execs') > Len(execs))
       => execs'[Len(execs')].source = Find(cells, c).source]_vars

\* C28: a run-all batch submits the code cells the notebook held when run all
\* was clicked, in the order they had then and with the source they had then,
\* whatever is inserted, deleted, moved or edited while the batch runs: the
\* k-th call of the batch is for the k-th code cell of that notebook, and a
\* submission carries that cell's source of then.
C28_RunAllSnapshot ==
  [][/\ IsPrefix(batchLog'.calls, batchLog'.code)
     /\ batchLog'.finished => batchLog'.calls = batchLog'.code
     /\ (Len(execs') > Len(execs) /\ execs'[Len(execs')].inBatch)
          => /\ batchLog'.submitted # <<>>
             /\ batchLog'.submitted[Len(batchLog'.submitted)] = execs'[Len(execs')].cell
             /\ execs'[Len(execs')].cell = batchLog'.code[Len(batchLog'.calls)]
             /\ execs'[Len(execs')].source = batchLog'.text[Len(batchLog'.calls)]]_vars

\* A code cell was added while the first cell of a batch was running: the
\* batch has ended after submitting the two code cells of the notebook of
\* then, and the added cell was not run.
C28_Witness ==
  /\ batchLog.finished
  /\ batchLog.submitted = <<1, 3>>
  /\ Len(mountAdded) = 1
  /\ Find(mountAdded[1], 1).status = "running"
  /\ Find(mountAdded[1], 3).status = "idle"
  /\ HasCell(cells, 4)
  /\ Find(cells, 4).type = "code"
  /\ Find(cells, 4).status = "idle"

\* C29: clear all outputs leaves every cell idle and empty with its source
\* untouched, and a cell that is idle and empty stays so until an execution
\* of it is requested (stated for steps in which no execution invalidated by
\* a restart is pending).
C29_ClearedStaysCleared ==
  [][/\ ClearAllOutputsClick
          => \A i \in 1..Len(cells) :
               /\ cells'[i].status = "idle"
               /\ cells'[i].outputs = <<>>
               /\ cells'[i].source = cells[i].source
     /\ \A i \in 1..Len(cells) :
          (/\ cells[i].status = "idle"
           /\ cells[i].outputs = <<>>
           /\ cells'[i] # cells[i]
           /\ \A r \in 1..Len(execs) : execs[r].phase # "invalid")
          => \E r \in (Len(execs) + 1)..Len(execs') : execs'[r].cell = cells[i].id]_vars

\* An overtaken connection attempt settles in this step.
StaleSettles == superseded' < superseded

\* C30: the status follows the latest connection attempt only: when an
\* overtaken attempt settles late, with success or with failure, the kernel
\* status stays what it was and the initializing state of the attempt that is
\* still pending does not end.
C30_OnlyLatestAttempt ==
  [][StaleSettles
       => /\ kernelStatus' = kernelStatus
          /\ (initPc = "awaiting" /\ isInitializing) => isInitializing']_vars

====
